---- MODULE Spec2Model ----
(***************************************************************************)
(* TACAnalyzer (new_tac_analyser.py): leaders, basic blocks, CFG,          *)
(* dominators, back edges, natural loops, reaching definitions, UD-chains, *)
(* loop invariants and movable instructions of a three-address-code        *)
(* program, as run_full_analysis runs them one after the other.            *)
(*                                                                         *)
(* Statements are the four textual forms the analyser tells apart with     *)
(* its substring tests:                                                    *)
(*   "<v> = <expr>"        kind "assign"  ("=" present, no leading "If")   *)
(*   "If <cond> GOTO <n>"  kind "if"      ("GOTO" and "If" present)        *)
(*   "GOTO <n>"            kind "goto"    ("GOTO" present, "If" absent)    *)
(*   "return <expr>"       kind "return"  (none of the above)              *)
(* Block ids "B<k>" are the integers k.  Python lists in which order or    *)
(* repetition shows are sequences; the others are sets.                    *)
(***************************************************************************)
EXTENDS Integers, Sequences, FiniteSets, TLC

\* Longest input program (number of statements).
MaxLen == 4

\* Longest input program of the control-flow family CfgPrograms.
MaxCfgLen == 4

\* Longest input program of the data-flow family (IsDfProgram).
MaxDfLen == 3

\* Longest input program of the family with out-of-range jump targets.
MaxBadLen == 3

\* Longest input program of the family run step by step (IsStepProgram).
MaxStepLen == 3

\* Longest program shown in the step-through window
MaxShownLen == 2

\* Identifiers that occur in the input programs.
Vars == {"x", "y"}

\* The analyser's fields; pc, the stage run_full_analysis runs next;
\* previous, what the caller holds of the previous call of
\* run_full_analysis on this analyser (empty before the first call ends);
\* cursor, the position inside the fixed-point loop that is run step by
\* step; and the step-through controller of TACVisualization: current_step,
\* auto_playing, auto_id (0 while the attribute does not exist) and pending,
\* the timers root.after has scheduled that have neither fired nor been
\* cancelled.
VARIABLES current_step, auto_playing, auto_id, pending, cursor,
          input_tac, previous,
          leaders, blocks, stmt_to_block, successors, predecessors,
          dominators, back_edges, loops, loop_blocks, gen, kill, definitions,
          uses, in_sets, out_sets, ud_chains, loop_invariants,
          movable_instructions, pc

controller == <<current_step, auto_playing, auto_id, pending>>

vars == <<controller, cursor, input_tac, previous,
          leaders, blocks, stmt_to_block, successors, predecessors,
          dominators, back_edges, loops, loop_blocks, gen, kill, definitions,
          uses, in_sets, out_sets, ud_chains, loop_invariants,
          movable_instructions, pc>>

--------------------------------------------------------------------------
(* Input statements *)

Assign(l, o) == [kind |-> "assign", lhs |-> l, ops |-> o, target |-> 0]
CondBranch(t) == [kind |-> "if", lhs |-> "", ops |-> {}, target |-> t]
Jump(t) == [kind |-> "goto", lhs |-> "", ops |-> {}, target |-> t]
Return == [kind |-> "return", lhs |-> "", ops |-> {}, target |-> 0]

\* Statements of a program of n lines; jump targets are statement numbers.
StmtsFor(n) ==
  {Assign(l, o) : l \in Vars, o \in SUBSET Vars}
    \cup {CondBranch(t) : t \in 1..n}
    \cup {Jump(t) : t \in 1..n}
    \cup {Return}

\* The input programs: input_tac is one of them
IsProgram(tac) == \E n \in 1..MaxLen : tac \in [1..n -> StmtsFor(n)]

\* Statements of the programs that differ in control flow only: every
\* assignment is "x = <literal>".
CfgStmtsFor(n) ==
  {Assign("x", {})}
    \cup {CondBranch(t) : t \in 1..n}
    \cup {Jump(t) : t \in 1..n}
    \cup {Return}

IsCfgProgram(tac) == \E n \in 1..MaxCfgLen : tac \in [1..n -> CfgStmtsFor(n)]

\* The programs of the data-flow family: every statement form, shorter
\* programs.
IsDfProgram(tac) == \E n \in 1..MaxDfLen : tac \in [1..n -> StmtsFor(n)]

\* Statements of the programs whose jumps may leave the program: int()
\* accepts any integer after GOTO, so targets run from -1 to n+1.
BadStmtsFor(n) ==
  {Assign("x", {})}
    \cup {CondBranch(t) : t \in (0 - 1)..(n + 1)}
    \cup {Jump(t) : t \in (0 - 1)..(n + 1)}
    \cup {Return}

IsBadProgram(tac) == \E n \in 1..MaxBadLen : tac \in [1..n -> BadStmtsFor(n)]

\* The array_sum example program
ScenarioA ==
  <<Assign("sum", {}),
    Assign("i", {}),
    CondBranch(12),
    Assign("t1", {}),
    Assign("t2", {"i"}),
    Assign("t3", {"t1", "t2"}),
    Assign("t4", {"sum", "t3"}),
    Assign("sum", {"t4"}),
    Assign("t5", {"i"}),
    Assign("i", {"t5"}),
    Jump(3),
    Return>>

\* array_sum and the programs that differ from it in one statement, which
\* is another statement of array_sum or a jump within it
IsScenarioProgram(tac) ==
  \E k \in DOMAIN ScenarioA :
    \E st \in {ScenarioA[j] : j \in DOMAIN ScenarioA}
               \cup {CondBranch(t) : t \in DOMAIN ScenarioA}
               \cup {Jump(t) : t \in DOMAIN ScenarioA} :
      tac = [ScenarioA EXCEPT ![k] = st]

\* "GOTO" in stmt
HasGOTO(s) == s.kind \in {"if", "goto"}
\* "If" in stmt
HasIf(s) == s.kind = "if"
\* "=" in stmt and not stmt.startswith("If")
HasAssign(s) == s.kind = "assign"
\* int(stmt.split("GOTO")[1].strip().split()[0])
GotoTarget(s) == s.target

--------------------------------------------------------------------------
(* Python list helpers *)

Range(s) == {s[i] : i \in DOMAIN s}

Min(S) == CHOOSE m \in S : \A k \in S : m <= k

\* sorted(list(S)) for a set of integers
RECURSIVE Sorted(_)
Sorted(S) == IF S = {} THEN <<>> ELSE <<Min(S)>> \o Sorted(S \ {Min(S)})

\* list.sort() of a list of integers (repetitions kept)
RECURSIVE SortList(_)
SortList(s) ==
  IF s = <<>> THEN <<>>
  ELSE LET m == Min(Range(s))
       IN SelectSeq(s, LAMBDA e : e = m) \o SortList(SelectSeq(s, LAMBDA e : e # m))

\* lst[i] with a 0-based, possibly negative, Python index
PyInRange(lst, i) == i >= 0 - Len(lst) /\ i < Len(lst)
PyGet(lst, i) == IF i >= 0 THEN lst[i + 1] ELSE lst[Len(lst) + i + 1]

--------------------------------------------------------------------------
(* identify_leaders *)

\* The statement numbers the loop visits: range(1, len(input_tac)) are the
\* 0-based indices of statements 2..N.
LeaderScan(tac) == 2..Len(tac)

\* LeaderSet that also starts a block after every return
LeaderSetAfterReturn(tac) ==
  {1}
    \cup {GotoTarget(tac[k]) : k \in {j \in LeaderScan(tac) : HasGOTO(tac[j])}}
    \cup {k + 1 : k \in {j \in LeaderScan(tac) : HasGOTO(tac[j]) /\ HasIf(tac[j])}}
    \cup {k + 1 : k \in {j \in 1..(Len(tac) - 1) : tac[j].kind = "return"}}

LeaderSet(tac) ==
  {1}
    \cup {GotoTarget(tac[k]) : k \in {j \in LeaderScan(tac) : HasGOTO(tac[j])}}
    \cup {k + 1 : k \in {j \in LeaderScan(tac) : HasGOTO(tac[j]) /\ HasIf(tac[j])}}

LeadersOf(tac) == Sorted(LeaderSet(tac))

--------------------------------------------------------------------------
(* form_basic_blocks *)

\* Statements appended after the leader: range(leader+1, N+1) up to the
\* first one that is a leader.
BlockTail(tac, ldrs, leader) ==
  {j \in (leader + 1)..Len(tac) : \A k \in (leader + 1)..j : k \notin Range(ldrs)}

BlockStmts(tac, ldrs, leader) ==
  [i \in 1..(1 + Cardinality(BlockTail(tac, ldrs, leader))) |-> leader + i - 1]

BlocksOf(tac, ldrs) == [b \in 1..Len(ldrs) |-> BlockStmts(tac, ldrs, ldrs[b])]

\* stmt_to_block: a later block overwrites an earlier one
StmtToBlockOf(blks) ==
  [s \in UNION {Range(blks[b]) : b \in DOMAIN blks} |->
     CHOOSE b \in DOMAIN blks :
       /\ s \in Range(blks[b])
       /\ \A c \in DOMAIN blks : s \in Range(blks[c]) => c <= b]

--------------------------------------------------------------------------
(* build_cfg *)

LastStmt(blks, b) == blks[b][Len(blks[b])]

\* input_tac[last_stmt-1] raises IndexError
BlockRaises(tac, blks, b) == ~PyInRange(tac, LastStmt(blks, b) - 1)

\* "B" + str(int(block[1:])+1) when it is a block
NextBlock(blks, b) == IF b + 1 \in DOMAIN blks THEN <<b + 1>> ELSE <<>>

\* The blocks whose statement list holds the jump target, in dict order
TargetBlocks(blks, target) ==
  SelectSeq([k \in 1..Len(blks) |-> k], LAMBDA k : target \in Range(blks[k]))

\* The successors block b appends, in the order it appends them
BlockEdges(tac, blks, b) ==
  LET stmt == PyGet(tac, LastStmt(blks, b) - 1)
  IN IF HasGOTO(stmt)
     THEN TargetBlocks(blks, GotoTarget(stmt))
            \o (IF HasIf(stmt) THEN NextBlock(blks, b) ELSE <<>>)
     ELSE NextBlock(blks, b)

\* One iteration of the loop over the blocks: append to successors[b] and
\* to the predecessors of each target, then sort successors[b].
CfgAdd(st, b, edges) ==
  [succ |-> [st.succ EXCEPT ![b] = SortList(st.succ[b] \o edges)],
   pred |-> [k \in DOMAIN st.pred |->
               st.pred[k] \o [i \in 1..Len(SelectSeq(edges, LAMBDA t : t = k)) |-> b]],
   raised |-> FALSE]

RECURSIVE CfgFrom(_, _, _, _)
CfgFrom(tac, blks, b, st) ==
  IF b > Len(blks) THEN st
  ELSE IF BlockRaises(tac, blks, b) THEN [st EXCEPT !.raised = TRUE]
  ELSE CfgFrom(tac, blks, b + 1, CfgAdd(st, b, BlockEdges(tac, blks, b)))

CfgOf(tac, blks) ==
  CfgFrom(tac, blks, 1,
          [succ |-> [b \in DOMAIN blks |-> <<>>],
           pred |-> [b \in DOMAIN blks |-> <<>>],
           raised |-> FALSE])

--------------------------------------------------------------------------
(* compute_dominators *)

\* DomInit that starts every block from its own singleton
DomInitSelf(blks) == [b \in DOMAIN blks |-> {b}]

DomInit(blks) == [b \in DOMAIN blks |-> IF b = 1 THEN {1} ELSE DOMAIN blks]

\* NewDoms with the predecessors' sets united where the code intersects them
NewDomsUnion(dom, preds, b) ==
  {b} \cup {d \in DOMAIN dom : \E p \in Range(preds[b]) : d \in dom[p]}

\* set.intersection(*[dominators[pred] for pred in preds]) with block added
NewDoms(dom, preds, b) ==
  {b} \cup {d \in DOMAIN dom : \A p \in Range(preds[b]) : d \in dom[p]}

DomUpdate(dom, preds, b) ==
  IF b = 1 \/ preds[b] = <<>> THEN dom
  ELSE [dom EXCEPT ![b] = NewDoms(dom, preds, b)]

\* One pass of the for loop over the blocks, updating in place
RECURSIVE DomPass(_, _, _)
DomPass(dom, preds, b) ==
  IF b \notin DOMAIN dom THEN dom
  ELSE DomPass(DomUpdate(dom, preds, b), preds, b + 1)

\* DomFix that stops after the first pass over the blocks
DomFixOnePass(dom, preds) == DomPass(dom, preds, 1)

\* while changed
RECURSIVE DomFix(_, _)
DomFix(dom, preds) ==
  LET d == DomPass(dom, preds, 1)
  IN IF d = dom THEN dom ELSE DomFix(d, preds)

DominatorsOf(blks, preds) == DomFix(DomInit(blks), preds)

--------------------------------------------------------------------------
(* identify_back_edges *)

\* BlockBackEdges with the dominance test the wrong way round
BlockBackEdgesReversed(succ, dom, b) ==
  LET hit == SelectSeq(succ[b], LAMBDA s : b \in dom[s])
  IN [i \in 1..Len(hit) |-> <<b, hit[i]>>]

BlockBackEdges(succ, dom, b) ==
  LET hit == SelectSeq(succ[b], LAMBDA s : s \in dom[b])
  IN [i \in 1..Len(hit) |-> <<b, hit[i]>>]

RECURSIVE BackEdgesFrom(_, _, _)
BackEdgesFrom(succ, dom, b) ==
  IF b \notin DOMAIN succ THEN <<>>
  ELSE BlockBackEdges(succ, dom, b) \o BackEdgesFrom(succ, dom, b + 1)

\* BackEdgesOf that appends to the list the previous call left
BackEdgesKept(succ, dom) == back_edges \o BackEdgesFrom(succ, dom, 1)

\* self.back_edges = [] and the loop over the blocks
BackEdgesOf(succ, dom) == BackEdgesFrom(succ, dom, 1)

--------------------------------------------------------------------------
(* identify_loops *)

\* LoopPush without the test pred != header
LoopPushAll(preds, node, header) == preds[node]

\* The predecessors pushed when node is added to the loop
LoopPush(preds, node, header) == SelectSeq(preds[node], LAMBDA p : p # header)

\* while stack: node = stack.pop() ...
RECURSIVE LoopWalk(_, _, _, _)
LoopWalk(preds, header, stack, loop) ==
  IF stack = <<>> THEN loop
  ELSE LET node == stack[Len(stack)]
           rest == SubSeq(stack, 1, Len(stack) - 1)
       IN IF node \in loop THEN LoopWalk(preds, header, rest, loop)
          ELSE LoopWalk(preds, header, rest \o LoopPush(preds, node, header),
                        loop \cup {node})

\* The sorted block list recorded for the back edge (tail, header)
LoopOf(preds, tail, header) ==
  Sorted(LoopWalk(preds, header, <<tail>>, {}) \cup {header})

LoopsOf(preds, bedges) ==
  [k \in {<<bedges[i][2], bedges[i][1]>> : i \in DOMAIN bedges} |->
     LoopOf(preds, k[2], k[1])]

LoopBlocksOf(lps) == UNION {Range(lps[k]) : k \in DOMAIN lps}

--------------------------------------------------------------------------
(* _get_variable, _extract_operands *)

\* _get_variable(stmt_num); "" stands for None
GetVariable(tac, n) ==
  IF n > Len(tac) THEN ""
  ELSE IF HasAssign(PyGet(tac, n - 1)) THEN PyGet(tac, n - 1).lhs ELSE ""

\* _extract_operands(input_tac[stmt_num-1]): the identifiers right of "="
ExtractOperands(tac, n) ==
  IF HasAssign(PyGet(tac, n - 1)) THEN PyGet(tac, n - 1).ops ELSE {}

--------------------------------------------------------------------------
(* compute_gen_kill *)

BlockStmtSet(blks) == UNION {Range(blks[b]) : b \in DOMAIN blks}

DefinitionsOf(tac, blks) ==
  [n \in {m \in BlockStmtSet(blks) : GetVariable(tac, m) # ""} |-> GetVariable(tac, n)]

UsesOf(tac, blks) ==
  [v \in UNION {ExtractOperands(tac, n) : n \in BlockStmtSet(blks)} |->
     {n \in BlockStmtSet(blks) : v \in ExtractOperands(tac, n)}]

GenOf(tac, blks) ==
  [b \in DOMAIN blks |-> {n \in Range(blks[b]) : GetVariable(tac, n) # ""}]

\* KillOf that leaves the block's own statements out of its KILL set
KillOfOthers(tac, blks, defs) ==
  [b \in DOMAIN blks |->
     {prev \in DOMAIN defs \ Range(blks[b]) :
        \E n \in Range(blks[b]) :
          /\ GetVariable(tac, n) # ""
          /\ defs[prev] = GetVariable(tac, n)}]

KillOf(tac, blks, defs) ==
  [b \in DOMAIN blks |->
     {prev \in DOMAIN defs :
        \E n \in Range(blks[b]) :
          /\ GetVariable(tac, n) # ""
          /\ defs[prev] = GetVariable(tac, n)
          /\ prev # n}]

--------------------------------------------------------------------------
(* compute_in_out *)

\* set.union(*[out_sets[pred] for pred in predecessors[block]]), or set()
BlockIn(io, b) == UNION {io.out[p] : p \in Range(predecessors[b])}

BlockOut(in, b) == gen[b] \cup (in \ kill[b])

InOutUpdate(io, b) ==
  [in |-> [io.in EXCEPT ![b] = BlockIn(io, b)],
   out |-> [io.out EXCEPT ![b] = BlockOut(BlockIn(io, b), b)]]

RECURSIVE InOutPass(_, _)
InOutPass(io, b) ==
  IF b \notin DOMAIN blocks THEN io
  ELSE InOutPass(InOutUpdate(io, b), b + 1)

\* InOutFix that stops after the first pass over the blocks
InOutFixOnePass(io) == InOutPass(io, 1)

\* while changed
RECURSIVE InOutFix(_)
InOutFix(io) ==
  LET n == InOutPass(io, 1)
  IN IF n = io THEN io ELSE InOutFix(n)

\* InOutInit that starts every set from all the definitions
InOutInitAll ==
  [in |-> [b \in DOMAIN blocks |-> DOMAIN definitions],
   out |-> [b \in DOMAIN blocks |-> DOMAIN definitions]]

\* in_sets and out_sets as lines 206-207 start them
InOutInit ==
  [in |-> [b \in DOMAIN blocks |-> {}], out |-> [b \in DOMAIN blocks |-> {}]]

InOutOf == InOutFix(InOutInit)

--------------------------------------------------------------------------
(* compute_ud_chains *)

\* One step of the walk over block_stmts[:idx]
\* UdShadow that adds the local definition without removing the others
UdShadowKeep(reaching, n, v) ==
  IF n \in DOMAIN definitions /\ definitions[n] = v
  THEN reaching \cup {n}
  ELSE reaching

UdShadow(reaching, n, v) ==
  IF n \in DOMAIN definitions /\ definitions[n] = v
  THEN {d \in reaching : ~(d \in DOMAIN definitions /\ definitions[d] = v)} \cup {n}
  ELSE reaching

RECURSIVE UdWalk(_, _, _, _)
UdWalk(reaching, stmts, i, v) ==
  IF i > Len(stmts) THEN reaching
  ELSE UdWalk(UdShadow(reaching, stmts[i], v), stmts, i + 1, v)

\* block_stmts[:block_stmts.index(use_stmt)]
BlockPrefix(b, n) ==
  SubSeq(blocks[b], 1, (CHOOSE i \in DOMAIN blocks[b] : blocks[b][i] = n) - 1)

UdChainOf(n, v) ==
  LET b == stmt_to_block[n]
      reaching == UdWalk(in_sets[b], BlockPrefix(b, n), 1, v)
  IN {d \in reaching : d \in DOMAIN definitions /\ definitions[d] = v}

UdChainsOf ==
  [n \in UNION {uses[v] : v \in DOMAIN uses} |->
     [v \in {w \in DOMAIN uses : n \in uses[w]} |-> UdChainOf(n, v)]]

--------------------------------------------------------------------------
(* identify_loop_invariants *)

LoopStatements == Sorted(UNION {Range(blocks[b]) : b \in loop_blocks})

\* The loop over defs: no definition of the chain is in a loop block
\* without being marked invariant already.  An empty chain passes.
DefsInvariant(inv, defs) ==
  \A d \in defs : ~(stmt_to_block[d] \in loop_blocks /\ d \notin Range(inv))

OperandInvariant(inv, n, op) ==
  /\ n \in DOMAIN ud_chains
  /\ op \in DOMAIN ud_chains[n]
  /\ DefsInvariant(inv, ud_chains[n][op])

\* Qualifies that asks every statement, operands or not, for a UD-chain entry
QualifiesWithChain(inv, n) ==
  /\ HasAssign(PyGet(input_tac, n - 1))
  /\ n \in DOMAIN ud_chains
  /\ \A op \in ExtractOperands(input_tac, n) : OperandInvariant(inv, n, op)

Qualifies(inv, n) ==
  /\ HasAssign(PyGet(input_tac, n - 1))
  /\ \A op \in ExtractOperands(input_tac, n) : OperandInvariant(inv, n, op)

InvStep(inv, n) ==
  IF n \in Range(inv) THEN inv
  ELSE IF Qualifies(inv, n) THEN Append(inv, n) ELSE inv

RECURSIVE InvPass(_, _, _)
InvPass(inv, stmts, i) ==
  IF i > Len(stmts) THEN inv
  ELSE InvPass(InvStep(inv, stmts[i]), stmts, i + 1)

RECURSIVE InvFix(_)
InvFix(inv) ==
  LET n == InvPass(inv, LoopStatements, 1)
  IN IF n = inv THEN inv ELSE InvFix(n)

LoopInvariantsOf == InvFix(<<>>)

--------------------------------------------------------------------------
(* identify_movable_invariants *)

LoopExits ==
  {e \in UNION {Range(successors[b]) : b \in loop_blocks} : e \notin loop_blocks}

\* dominates_exits: computed for every invariant statement, never consulted
DominatesExits(n) == \A e \in LoopExits : stmt_to_block[n] \in dominators[e]

OtherDefsInLoop(n) ==
  {m \in DOMAIN definitions :
     /\ definitions[m] = definitions[n]
     /\ m # n
     /\ stmt_to_block[m] \in loop_blocks}

UsesInLoop(v) ==
  IF v \in DOMAIN uses THEN {u \in uses[v] : stmt_to_block[u] \in loop_blocks} ELSE {}

AllUsesReachedByThisDef(n) ==
  \A u \in UsesInLoop(definitions[n]) :
    (u \in DOMAIN ud_chains /\ definitions[n] \in DOMAIN ud_chains[u])
      => ud_chains[u][definitions[n]] = {n}

\* IsMovable without the test of other_defs_in_loop
IsMovableAlone(n) == AllUsesReachedByThisDef(n)

IsMovable(n) == OtherDefsInLoop(n) = {} /\ AllUsesReachedByThisDef(n)

MovableOf == SelectSeq(loop_invariants, IsMovable)

--------------------------------------------------------------------------
(* run_full_analysis: the stages in order *)

\* No fixed-point loop is being stepped through
Idle == [block |-> 0, changed |-> FALSE]

\* The controller as TACVisualization.__init__ and setup_ui leave it
InitController ==
  /\ current_step = 0
  /\ auto_playing = FALSE
  /\ auto_id = 0
  /\ pending = {}

\* The fields as __init__ leaves them, under a controller not yet used
InitFields ==
  /\ InitController
  /\ cursor = Idle
  /\ previous = <<>>
  /\ leaders = <<>>
  /\ blocks = <<>>
  /\ stmt_to_block = <<>>
  /\ successors = <<>>
  /\ predecessors = <<>>
  /\ dominators = <<>>
  /\ back_edges = <<>>
  /\ loops = <<>>
  /\ loop_blocks = {}
  /\ gen = <<>>
  /\ kill = <<>>
  /\ definitions = <<>>
  /\ uses = <<>>
  /\ in_sets = <<>>
  /\ out_sets = <<>>
  /\ ud_chains = <<>>
  /\ loop_invariants = <<>>
  /\ movable_instructions = <<>>
  /\ pc = "identify_leaders"

Init == IsProgram(input_tac) /\ InitFields

\* The same analyser run on the control-flow family
InitCfg == IsCfgProgram(input_tac) /\ InitFields

identify_leaders ==
  /\ pc = "identify_leaders"
  /\ leaders' = LeadersOf(input_tac)
  /\ pc' = "form_basic_blocks"
  /\ UNCHANGED <<controller, cursor, input_tac, previous,
                 blocks, stmt_to_block, successors, predecessors,
                 dominators, back_edges, loops, loop_blocks, gen, kill,
                 definitions, uses, in_sets, out_sets, ud_chains,
                 loop_invariants, movable_instructions>>

form_basic_blocks ==
  /\ pc = "form_basic_blocks"
  /\ blocks' = BlocksOf(input_tac, leaders)
  /\ stmt_to_block' = StmtToBlockOf(blocks')
  /\ pc' = "build_cfg"
  /\ UNCHANGED <<controller, cursor, input_tac, previous,
                 leaders, successors, predecessors, dominators,
                 back_edges, loops, loop_blocks, gen, kill, definitions, uses,
                 in_sets, out_sets, ud_chains, loop_invariants,
                 movable_instructions>>

\* An IndexError leaves the edges appended so far and ends the run.
build_cfg ==
  /\ pc = "build_cfg"
  /\ LET cfg == CfgOf(input_tac, blocks)
     IN /\ successors' = cfg.succ
        /\ predecessors' = cfg.pred
        /\ pc' = IF cfg.raised THEN "error" ELSE "compute_dominators"
  /\ UNCHANGED <<controller, cursor, input_tac, previous,
                 leaders, blocks, stmt_to_block, dominators,
                 back_edges, loops, loop_blocks, gen, kill, definitions, uses,
                 in_sets, out_sets, ud_chains, loop_invariants,
                 movable_instructions>>

compute_dominators ==
  /\ pc = "compute_dominators"
  /\ dominators' = DominatorsOf(blocks, predecessors)
  /\ pc' = "identify_back_edges"
  /\ UNCHANGED <<controller, cursor, input_tac, previous,
                 leaders, blocks, stmt_to_block, successors,
                 predecessors, back_edges, loops, loop_blocks, gen, kill,
                 definitions, uses, in_sets, out_sets, ud_chains,
                 loop_invariants, movable_instructions>>

identify_back_edges ==
  /\ pc = "identify_back_edges"
  /\ back_edges' = BackEdgesOf(successors, dominators)
  /\ pc' = "identify_loops"
  /\ UNCHANGED <<controller, cursor, input_tac, previous,
                 leaders, blocks, stmt_to_block, successors,
                 predecessors, dominators, loops, loop_blocks, gen, kill,
                 definitions, uses, in_sets, out_sets, ud_chains,
                 loop_invariants, movable_instructions>>

identify_loops ==
  /\ pc = "identify_loops"
  /\ loops' = LoopsOf(predecessors, back_edges)
  /\ loop_blocks' = LoopBlocksOf(loops')
  /\ pc' = "compute_gen_kill"
  /\ UNCHANGED <<controller, cursor, input_tac, previous,
                 leaders, blocks, stmt_to_block, successors,
                 predecessors, dominators, back_edges, gen, kill, definitions,
                 uses, in_sets, out_sets, ud_chains, loop_invariants,
                 movable_instructions>>

compute_gen_kill ==
  /\ pc = "compute_gen_kill"
  /\ definitions' = DefinitionsOf(input_tac, blocks)
  /\ uses' = UsesOf(input_tac, blocks)
  /\ gen' = GenOf(input_tac, blocks)
  /\ kill' = KillOf(input_tac, blocks, definitions')
  /\ pc' = "compute_in_out"
  /\ UNCHANGED <<controller, cursor, input_tac, previous,
                 leaders, blocks, stmt_to_block, successors,
                 predecessors, dominators, back_edges, loops, loop_blocks,
                 in_sets, out_sets, ud_chains, loop_invariants,
                 movable_instructions>>

compute_in_out ==
  /\ pc = "compute_in_out"
  /\ in_sets' = InOutOf.in
  /\ out_sets' = InOutOf.out
  /\ pc' = "compute_ud_chains"
  /\ UNCHANGED <<controller, cursor, input_tac, previous,
                 leaders, blocks, stmt_to_block, successors,
                 predecessors, dominators, back_edges, loops, loop_blocks, gen,
                 kill, definitions, uses, ud_chains, loop_invariants,
                 movable_instructions>>

compute_ud_chains ==
  /\ pc = "compute_ud_chains"
  /\ ud_chains' = UdChainsOf
  /\ pc' = "identify_loop_invariants"
  /\ UNCHANGED <<controller, cursor, input_tac, previous,
                 leaders, blocks, stmt_to_block, successors,
                 predecessors, dominators, back_edges, loops, loop_blocks, gen,
                 kill, definitions, uses, in_sets, out_sets, loop_invariants,
                 movable_instructions>>

identify_loop_invariants ==
  /\ pc = "identify_loop_invariants"
  /\ loop_invariants' = LoopInvariantsOf
  /\ pc' = "identify_movable_invariants"
  /\ UNCHANGED <<controller, cursor, input_tac, previous,
                 leaders, blocks, stmt_to_block, successors,
                 predecessors, dominators, back_edges, loops, loop_blocks, gen,
                 kill, definitions, uses, in_sets, out_sets, ud_chains,
                 movable_instructions>>

identify_movable_invariants ==
  /\ pc = "identify_movable_invariants"
  /\ movable_instructions' = MovableOf
  /\ pc' = "done"
  /\ UNCHANGED <<controller, cursor, input_tac, previous,
                 leaders, blocks, stmt_to_block, successors,
                 predecessors, dominators, back_edges, loops, loop_blocks, gen,
                 kill, definitions, uses, in_sets, out_sets, ud_chains,
                 loop_invariants>>

Next ==
  \/ identify_leaders
  \/ form_basic_blocks
  \/ build_cfg
  \/ compute_dominators
  \/ identify_back_edges
  \/ identify_loops
  \/ compute_gen_kill
  \/ compute_in_out
  \/ compute_ud_chains
  \/ identify_loop_invariants
  \/ identify_movable_invariants

Spec == Init /\ [][Next]_vars

\* The dictionary run_full_analysis returns
Result ==
  [leaders |-> leaders,
   blocks |-> blocks,
   successors |-> successors,
   predecessors |-> predecessors,
   dominators |-> dominators,
   back_edges |-> back_edges,
   loops |-> loops,
   loop_blocks |-> loop_blocks,
   gen |-> gen,
   kill |-> kill,
   in_sets |-> in_sets,
   out_sets |-> out_sets,
   ud_chains |-> ud_chains,
   loop_invariants |-> loop_invariants,
   movable_instructions |-> movable_instructions]

\* How the call ended: with the IndexError or with the dictionary
Outcome == [raised |-> pc = "error", result |-> Result]

\* The caller keeps the outcome and calls run_full_analysis on the same
\* analyser again: the fields are as the previous call left them.
run_full_analysis_again ==
  /\ pc \in {"done", "error"}
  /\ previous' = <<Outcome>>
  /\ pc' = "identify_leaders"
  /\ UNCHANGED <<controller, cursor, input_tac,
                 leaders, blocks, stmt_to_block, successors,
                 predecessors, dominators, back_edges, loops, loop_blocks, gen,
                 kill, definitions, uses, in_sets, out_sets, ud_chains,
                 loop_invariants, movable_instructions>>

NextAgain == Next \/ run_full_analysis_again

SpecCfg == InitCfg /\ [][Next]_vars

\* The same analyser run on the data-flow family
InitDf == IsDfProgram(input_tac) /\ InitFields

SpecDf == InitDf /\ [][Next]_vars

\* Repeated calls on one analyser, on the data-flow family
SpecAgain == InitDf /\ [][NextAgain]_vars

--------------------------------------------------------------------------
(* The two fixed-point loops, one block update per step *)

\* compute_dominators up to the first test of "while changed"
dominators_start ==
  /\ pc = "compute_dominators"
  /\ dominators' = DomInit(blocks)
  /\ cursor' = [block |-> 1, changed |-> FALSE]
  /\ pc' = "dominators_loop"
  /\ UNCHANGED <<controller, input_tac, previous, leaders, blocks,
                 stmt_to_block, successors, predecessors, back_edges, loops,
                 loop_blocks, gen, kill, definitions, uses, in_sets, out_sets,
                 ud_chains, loop_invariants, movable_instructions>>

\* One iteration of "for block in self.blocks" of compute_dominators
dominators_update ==
  /\ pc = "dominators_loop"
  /\ cursor.block \in DOMAIN blocks
  /\ dominators' = DomUpdate(dominators, predecessors, cursor.block)
  /\ cursor' = [block |-> cursor.block + 1,
                changed |-> cursor.changed \/ dominators' # dominators]
  /\ UNCHANGED <<controller, input_tac, previous, leaders, blocks,
                 stmt_to_block, successors, predecessors, back_edges, loops,
                 loop_blocks, gen, kill, definitions, uses, in_sets, out_sets,
                 ud_chains, loop_invariants, movable_instructions, pc>>

\* The end of a pass: another pass if changed, else the method returns
dominators_pass_end ==
  /\ pc = "dominators_loop"
  /\ cursor.block \notin DOMAIN blocks
  /\ IF cursor.changed
     THEN cursor' = [block |-> 1, changed |-> FALSE] /\ pc' = pc
     ELSE cursor' = Idle /\ pc' = "identify_back_edges"
  /\ UNCHANGED <<controller, input_tac, previous, leaders, blocks,
                 stmt_to_block, successors, predecessors, dominators,
                 back_edges, loops, loop_blocks, gen, kill, definitions, uses,
                 in_sets, out_sets, ud_chains, loop_invariants,
                 movable_instructions>>

\* compute_in_out up to the first test of "while changed"
in_out_start ==
  /\ pc = "compute_in_out"
  /\ in_sets' = InOutInit.in
  /\ out_sets' = InOutInit.out
  /\ cursor' = [block |-> 1, changed |-> FALSE]
  /\ pc' = "in_out_loop"
  /\ UNCHANGED <<controller, input_tac, previous, leaders, blocks,
                 stmt_to_block, successors, predecessors, dominators,
                 back_edges, loops, loop_blocks, gen, kill, definitions, uses,
                 ud_chains, loop_invariants, movable_instructions>>

\* One iteration of "for block in self.blocks" of compute_in_out
in_out_update ==
  /\ pc = "in_out_loop"
  /\ cursor.block \in DOMAIN blocks
  /\ LET io == InOutUpdate([in |-> in_sets, out |-> out_sets], cursor.block)
     IN /\ in_sets' = io.in
        /\ out_sets' = io.out
  /\ cursor' = [block |-> cursor.block + 1,
                changed |-> \/ cursor.changed
                            \/ in_sets' # in_sets
                            \/ out_sets' # out_sets]
  /\ UNCHANGED <<controller, input_tac, previous, leaders, blocks,
                 stmt_to_block, successors, predecessors, dominators,
                 back_edges, loops, loop_blocks, gen, kill, definitions, uses,
                 ud_chains, loop_invariants, movable_instructions, pc>>

in_out_pass_end ==
  /\ pc = "in_out_loop"
  /\ cursor.block \notin DOMAIN blocks
  /\ IF cursor.changed
     THEN cursor' = [block |-> 1, changed |-> FALSE] /\ pc' = pc
     ELSE cursor' = Idle /\ pc' = "compute_ud_chains"
  /\ UNCHANGED <<controller, input_tac, previous, leaders, blocks,
                 stmt_to_block, successors, predecessors, dominators,
                 back_edges, loops, loop_blocks, gen, kill, definitions, uses,
                 in_sets, out_sets, ud_chains, loop_invariants,
                 movable_instructions>>

\* Statements of the programs run step by step: literal assignments to
\* either variable, jumps and return
StepStmtsFor(n) ==
  {Assign(l, {}) : l \in Vars}
    \cup {CondBranch(t) : t \in 1..n}
    \cup {Jump(t) : t \in 1..n}
    \cup {Return}

IsStepProgram(tac) == \E n \in 1..MaxStepLen : tac \in [1..n -> StepStmtsFor(n)]

InitSteps == IsStepProgram(input_tac) /\ InitFields

\* run_full_analysis with the loops of compute_dominators and
\* compute_in_out run one block update at a time
NextSteps ==
  \/ identify_leaders
  \/ form_basic_blocks
  \/ build_cfg
  \/ dominators_start
  \/ dominators_update
  \/ dominators_pass_end
  \/ identify_back_edges
  \/ identify_loops
  \/ compute_gen_kill
  \/ in_out_start
  \/ in_out_update
  \/ in_out_pass_end
  \/ compute_ud_chains
  \/ identify_loop_invariants
  \/ identify_movable_invariants

\* The steps of the two loops
LoopSteps ==
  \/ dominators_start
  \/ dominators_update
  \/ dominators_pass_end
  \/ in_out_start
  \/ in_out_update
  \/ in_out_pass_end

\* The run is sequential: a loop goes on as long as it has a step left
SpecSteps == InitSteps /\ [][NextSteps]_vars /\ WF_vars(LoopSteps)

--------------------------------------------------------------------------
(* TACVisualization: the step-through controller *)

\* self.steps, the titles of the steps shown one after another
steps ==
  <<"Introduction", "Leader Statements", "Basic Blocks",
    "Control Flow Graph", "Dominators", "Back Edges", "Natural Loops",
    "Data Flow Analysis", "Loop-Invariant Code", "Code Motion">>

\* len(self.steps) - 1, the index of the last step
LastStep == Len(steps) - 1

\* The controller's fields as one record
Controller ==
  [current_step |-> current_step, auto_playing |-> auto_playing,
   auto_id |-> auto_id, pending |-> pending]

\* root.after_cancel(self.auto_id), skipped while auto_id was never set;
\* cancelling a timer that fired or was cancelled already does nothing
AfterCancel(c) ==
  IF c.auto_id # 0 THEN [c EXCEPT !.pending = @ \ {c.auto_id}] ELSE c

\* self.auto_id = root.after(auto_delay, self._auto_advance): Tk hands out
\* an identifier that no live timer and no identifier still held carries
After(c) ==
  LET id == CHOOSE i \in 1..(Cardinality(c.pending) + 2) :
              i \notin c.pending \cup {c.auto_id}
  IN [c EXCEPT !.auto_id = id, !.pending = @ \cup {id}]

RECURSIVE NextStep(_), ToggleAutoPlay(_), AutoAdvance(_)

\* next_step on the controller's fields
NextStep(c) ==
  IF c.current_step < LastStep
  THEN LET moved == [c EXCEPT !.current_step = @ + 1]
       IN IF moved.auto_playing THEN ToggleAutoPlay(moved) ELSE moved
  ELSE c

\* toggle_auto_play
ToggleAutoPlay(c) ==
  IF c.auto_playing
  THEN AfterCancel([c EXCEPT !.auto_playing = FALSE])
  ELSE AutoAdvance([c EXCEPT !.auto_playing = TRUE])

\* _auto_advance
AutoAdvance(c) ==
  IF c.current_step < LastStep
  THEN After(NextStep(c))
  ELSE ToggleAutoPlay(c)

\* previous_step on the controller's fields
PreviousStep(c) ==
  IF c.current_step > 0
  THEN LET moved == [c EXCEPT !.current_step = @ - 1]
       IN IF moved.auto_playing THEN ToggleAutoPlay(moved) ELSE moved
  ELSE c

\* The analyser's fields
analyzer ==
  <<leaders, blocks, stmt_to_block, successors, predecessors, dominators,
    back_edges, loops, loop_blocks, gen, kill, definitions, uses, in_sets,
    out_sets, ud_chains, loop_invariants, movable_instructions>>

\* _ensure_analysis_up_to_step(step): each stage up to the step runs if
\* the field it fills is still empty
ensure_analysis_up_to_step(step) ==
  /\ leaders' = IF step >= 1 /\ leaders = <<>>
                THEN LeadersOf(input_tac) ELSE leaders
  /\ LET run == step >= 2 /\ blocks = <<>>
     IN /\ blocks' = IF run THEN BlocksOf(input_tac, leaders') ELSE blocks
        /\ stmt_to_block' = IF run THEN StmtToBlockOf(blocks')
                            ELSE stmt_to_block
  /\ LET run == step >= 3 /\ successors = <<>>
         cfg == CfgOf(input_tac, blocks')
     IN /\ successors' = IF run THEN cfg.succ ELSE successors
        /\ predecessors' = IF run THEN cfg.pred ELSE predecessors
  /\ dominators' = IF step >= 4 /\ dominators = <<>>
                   THEN DominatorsOf(blocks', predecessors') ELSE dominators
  /\ back_edges' = IF step >= 5 /\ back_edges = <<>>
                   THEN BackEdgesOf(successors', dominators') ELSE back_edges
  /\ LET run == step >= 6 /\ DOMAIN loops = {}
     IN /\ loops' = IF run THEN LoopsOf(predecessors', back_edges') ELSE loops
        /\ loop_blocks' = IF run THEN LoopBlocksOf(loops') ELSE loop_blocks
  /\ LET run == step >= 7 /\ gen = <<>>
     IN /\ definitions' = IF run THEN DefinitionsOf(input_tac, blocks')
                          ELSE definitions
        /\ uses' = IF run THEN UsesOf(input_tac, blocks') ELSE uses
        /\ gen' = IF run THEN GenOf(input_tac, blocks') ELSE gen
        /\ kill' = IF run THEN KillOf(input_tac, blocks', definitions')
                   ELSE kill
        /\ in_sets' = IF run THEN InOutOf'.in ELSE in_sets
        /\ out_sets' = IF run THEN InOutOf'.out ELSE out_sets
        /\ ud_chains' = IF run THEN UdChainsOf' ELSE ud_chains
  /\ loop_invariants' = IF step >= 8 /\ loop_invariants = <<>>
                        THEN LoopInvariantsOf' ELSE loop_invariants
  /\ movable_instructions' = IF step >= 9 /\ movable_instructions = <<>>
                             THEN MovableOf' ELSE movable_instructions

\* A handler leaves the controller as c; next_step, the only place that
\* raises current_step, has then run the stages of the step it moved to.
\* update_display redraws the window from these fields and sets none.
Handled(c) ==
  /\ current_step' = c.current_step
  /\ auto_playing' = c.auto_playing
  /\ auto_id' = c.auto_id
  /\ pending' = c.pending
  /\ IF c.current_step > current_step
     THEN ensure_analysis_up_to_step(c.current_step)
     ELSE UNCHANGED analyzer

\* The Next button
next_step ==
  /\ UNCHANGED <<cursor, input_tac, previous, pc>>
  /\ Handled(NextStep(Controller))

\* The Previous button
previous_step ==
  /\ UNCHANGED <<cursor, input_tac, previous, pc>>
  /\ Handled(PreviousStep(Controller))

\* The Auto Play / Stop button
toggle_auto_play ==
  /\ UNCHANGED <<cursor, input_tac, previous, pc>>
  /\ Handled(ToggleAutoPlay(Controller))

\* A scheduled timer fires: Tk drops it and calls _auto_advance
auto_advance ==
  /\ UNCHANGED <<cursor, input_tac, previous, pc>>
  /\ \E id \in pending :
       Handled(AutoAdvance([Controller EXCEPT !.pending = @ \ {id}]))

\* The programs shown in the window: those on which build_cfg returns
IsShownProgram(tac) ==
  /\ \E n \in 1..MaxShownLen : tac \in [1..n -> StepStmtsFor(n)]
  /\ ~CfgOf(tac, BlocksOf(tac, LeadersOf(tac))).raised

InitVisualization == IsShownProgram(input_tac) /\ InitFields

\* The Tk main loop: one handler at a time, each run to its end
NextVisualization ==
  \/ next_step
  \/ previous_step
  \/ toggle_auto_play
  \/ auto_advance

SpecVisualization == InitVisualization /\ [][NextVisualization]_vars

\* The same analyser run on programs whose jumps may leave the program
InitBad == IsBadProgram(input_tac) /\ InitFields

SpecBad == InitBad /\ [][Next]_vars

\* The same analyser run on array_sum and its one-statement variants
InitScenario == IsScenarioProgram(input_tac) /\ InitFields

SpecScenario == InitScenario /\ [][Next]_vars

--------------------------------------------------------------------------
(* Which stages of the run have finished *)

StageOrder ==
  <<"identify_leaders", "form_basic_blocks", "build_cfg", "compute_dominators",
    "identify_back_edges", "identify_loops", "compute_gen_kill",
    "compute_in_out", "compute_ud_chains", "identify_loop_invariants",
    "identify_movable_invariants", "done">>

StageNo(p) == CHOOSE i \in DOMAIN StageOrder : StageOrder[i] = p

\* The stage has returned normally in this run
Ran(stage) == pc # "error" /\ StageNo(pc) > StageNo(stage)

N == Len(input_tac)

NoRepeat(s) == \A i, j \in DOMAIN s : i # j => s[i] # s[j]

--------------------------------------------------------------------------
(* Graph notions the claims are stated with, read off the CFG *)

\* Blocks reached from the blocks S along successor edges that do not
\* enter the block avoid
RECURSIVE Forward(_, _)
Forward(S, avoid) ==
  LET n == S \cup {t \in UNION {Range(successors[b]) : b \in S} : t # avoid}
  IN IF n = S THEN S ELSE Forward(n, avoid)

\* Blocks reachable from the entry block (0 is no block)
Reachable == Forward({1}, 0)

\* D is on every path from the entry block to b
OnEveryPath(D, b) == D = b \/ D = 1 \/ b \notin Forward({1}, D)

PathDominators(b) == {D \in DOMAIN blocks : OnEveryPath(D, b)}

\* Blocks other than header with a path into S along successor edges
RECURSIVE Backward(_, _)
Backward(S, header) ==
  LET n == S \cup {b \in DOMAIN blocks :
                     b # header /\ \E t \in Range(successors[b]) : t \in S}
  IN IF n = S THEN S ELSE Backward(n, header)

\* Blocks from which tail is reachable without passing through header,
\* with header and tail
NaturalLoop(tail, header) ==
  IF tail = header THEN {header} ELSE Backward({tail}, header) \cup {header}

\* Statement-level flow: the statements control may go to right after n
StmtSucc(n) ==
  IF n # LastStmt(blocks, stmt_to_block[n]) THEN {n + 1}
  ELSE {blocks[t][1] : t \in Range(successors[stmt_to_block[n]])}

Defines(n, v) == n \in DOMAIN definitions /\ definitions[n] = v

\* Statements reached from S on paths that stop at an assignment to v
RECURSIVE Flow(_, _)
Flow(S, v) ==
  LET n == S \cup UNION {StmtSucc(m) : m \in {k \in S : ~Defines(k, v)}}
  IN IF n = S THEN S ELSE Flow(n, v)

\* Definitions of v with a path to n on which nothing else assigns v
MayReach(n, v) ==
  {d \in DOMAIN definitions : Defines(d, v) /\ n \in Flow(StmtSucc(d), v)}

RecordedUses == {<<n, v>> \in (1..N) \X Vars : v \in DOMAIN uses /\ n \in uses[v]}

--------------------------------------------------------------------------
(* Blocks and leaders *)

\* C1: after identify_leaders and form_basic_blocks every statement 1..N is
\* in exactly one block, no block holds an index outside 1..N, every block
\* is a non-empty contiguous ascending run and only its first element is a
\* leader.
C1_BlocksPartition ==
  pc = "build_cfg" =>
    /\ \A n \in 1..N : Cardinality({b \in DOMAIN blocks : n \in Range(blocks[b])}) = 1
    /\ \A b \in DOMAIN blocks :
         /\ Range(blocks[b]) \subseteq 1..N
         /\ Len(blocks[b]) >= 1
         /\ \A i \in 2..Len(blocks[b]) : blocks[b][i] = blocks[b][i - 1] + 1
         /\ blocks[b][1] \in Range(leaders)
         /\ \A i \in 2..Len(blocks[b]) : blocks[b][i] \notin Range(leaders)

\* The leader set of the specification: statement 1, every jump target and
\* the statement after every conditional branch, at any position 1..N
AllJumpLeaders ==
  {1}
    \cup {GotoTarget(input_tac[k]) : k \in {j \in 1..N : HasGOTO(input_tac[j])}}
    \cup {k + 1 : k \in {j \in 1..N : HasIf(input_tac[j])}}

\* C2: identify_leaders returns the sorted duplicate-free list of exactly
\* {1}, the target of every jump at any position 1..N, and i+1 for every
\* conditional branch i at any position 1..N.
C2_LeadersAreAllJumpLeaders ==
  Ran("identify_leaders") =>
    /\ Range(leaders) = AllJumpLeaders
    /\ \A i, j \in DOMAIN leaders : i < j => leaders[i] < leaders[j]

--------------------------------------------------------------------------
(* CFG *)

\* C3: after build_cfg a block whose final statement is a return has no
\* successor, wherever it sits in leader order.
C3_ReturnHasNoSuccessor ==
  Ran("build_cfg") =>
    \A b \in DOMAIN blocks :
      input_tac[LastStmt(blocks, b)].kind = "return" => successors[b] = <<>>

\* C4: after build_cfg the predecessor list of the entry block B1 is empty.
C4_EntryHasNoPredecessor ==
  Ran("build_cfg") => predecessors[1] = <<>>

\* C5: after build_cfg no block appears more than once in any successor
\* list or predecessor list.
C5_NoDuplicateEdge ==
  Ran("build_cfg") =>
    \A b \in DOMAIN blocks : NoRepeat(successors[b]) /\ NoRepeat(predecessors[b])

--------------------------------------------------------------------------
(* Loop invariants and code motion *)

\* C6: when identify_movable_invariants finishes, a loop-invariant
\* statement is movable if and only if its block dominates every loop exit,
\* no other statement in a loop block defines its variable, and every use
\* of the variable in a loop block has the UD-chain {S}.
C6_MovableIffThreeConditions ==
  Ran("identify_movable_invariants") =>
    \A n \in Range(loop_invariants) :
      n \in Range(movable_instructions) <=>
        /\ DominatesExits(n)
        /\ OtherDefsInLoop(n) = {}
        /\ \A u \in UsesInLoop(definitions[n]) : ud_chains[u][definitions[n]] = {n}

\* C7: at the fixed point an assignment in a loop block with at least one
\* operand is loop-invariant if and only if every operand's UD-chain is
\* non-empty and each of its definitions is outside the loop blocks or
\* loop-invariant itself.
C7_InvariantIffChainsInvariant ==
  Ran("identify_loop_invariants") =>
    \A n \in Range(LoopStatements) :
      (HasAssign(input_tac[n]) /\ ExtractOperands(input_tac, n) # {}) =>
        (n \in Range(loop_invariants) <=>
           \A op \in ExtractOperands(input_tac, n) :
             /\ ud_chains[n][op] # {}
             /\ \A d \in ud_chains[n][op] :
                  stmt_to_block[d] \notin loop_blocks \/ d \in Range(loop_invariants))

--------------------------------------------------------------------------
(* UD-chains, loops, dominators *)

\* C8: the UD-chain of every recorded use (s, v) is exactly the set of
\* definitions of v with a CFG path to s on which no other statement
\* assigns v.
C8_UdChainIsMayReach ==
  Ran("compute_ud_chains") =>
    \A u \in RecordedUses : ud_chains[u[1]][u[2]] = MayReach(u[1], u[2])

\* C9: the loop recorded for a back edge (tail, header) is exactly the
\* blocks from which tail is reachable without passing through header,
\* with header and tail; for tail = header it is {header}.
C9_LoopIsNaturalLoop ==
  Ran("identify_loops") =>
    \A i \in DOMAIN back_edges :
      LET tail == back_edges[i][1]
          header == back_edges[i][2]
      IN /\ <<header, tail>> \in DOMAIN loops
         /\ Range(loops[<<header, tail>>]) = NaturalLoop(tail, header)

\* C10: for every block reachable from the entry block, the dominator set
\* is the set of blocks that lie on every CFG path from the entry block to
\* it.
C10_DominatorsArePathDominators ==
  Ran("compute_dominators") =>
    \A b \in Reachable : dominators[b] = PathDominators(b)

\* C10 witness: dominators are computed for a reachable block that two
\* different reachable blocks enter, one of which does not dominate it.
C10_Witness ==
  /\ Ran("compute_dominators")
  /\ \E b \in Reachable \ {1} :
       \E p, q \in Range(predecessors[b]) \cap Reachable :
         p # q /\ p \notin dominators[b] /\ dominators[b] # {b}

\* C11: when compute_dominators terminates the entry block's set is {B1},
\* every other block with a predecessor has the set {B} united with the
\* intersection of its predecessors' sets, and a non-entry block without
\* predecessors keeps the full block set.
C11_DominatorFixedPoint ==
  Ran("compute_dominators") =>
    /\ dominators[1] = {1}
    /\ \A b \in DOMAIN blocks \ {1} :
         IF predecessors[b] # <<>>
         THEN dominators[b] =
                {b} \cup {d \in DOMAIN blocks :
                            \A p \in Range(predecessors[b]) : d \in dominators[p]}
         ELSE dominators[b] = DOMAIN blocks

\* C11 witness: the fixed point took more than one pass, and some non-entry
\* block has predecessors.
C11_Witness ==
  /\ Ran("compute_dominators")
  /\ dominators # DomPass(DomInit(blocks), predecessors, 1)
  /\ \E b \in DOMAIN blocks \ {1} : predecessors[b] # <<>>

\* C12: after identify_back_edges (tail, header) is in the back-edge list
\* if and only if header is a successor of tail and header is in
\* Dominators(tail).
C12_BackEdgeIffDominatingSuccessor ==
  Ran("identify_back_edges") =>
    \A t, h \in DOMAIN blocks :
      <<t, h>> \in Range(back_edges) <=>
        (h \in Range(successors[t]) /\ h \in dominators[t])

\* C12 witness: a back edge is recorded whose header is another block than
\* its tail, next to a CFG edge that is no back edge.
C12_Witness ==
  /\ Ran("identify_back_edges")
  /\ \E i \in DOMAIN back_edges : back_edges[i][1] # back_edges[i][2]
  /\ \E t \in DOMAIN blocks :
       \E h \in Range(successors[t]) : <<t, h>> \notin Range(back_edges)

--------------------------------------------------------------------------
(* Reaching definitions *)

\* C13: in the result of compute_in_out the IN set of the entry block B1 is
\* empty, for every program.
C13_EntryInEmpty ==
  Ran("compute_in_out") => in_sets[1] = {}

\* C14: when compute_in_out terminates IN[B] of every block other than the
\* entry block is the union of OUT[P] over the predecessors P of B, and
\* OUT[B] of every block is GEN[B] united with IN[B] - KILL[B], hence
\* contains GEN[B].
C14_InOutEquations ==
  Ran("compute_in_out") =>
    /\ \A b \in DOMAIN blocks \ {1} :
         in_sets[b] = UNION {out_sets[p] : p \in Range(predecessors[b])}
    /\ \A b \in DOMAIN blocks :
         /\ out_sets[b] = gen[b] \cup (in_sets[b] \ kill[b])
         /\ gen[b] \subseteq out_sets[b]

\* C14 witness: the fixed point took more than one pass, and a non-entry
\* block with predecessors kills part of its IN set and passes the rest on.
C14_Witness ==
  /\ Ran("compute_in_out")
  /\ [in |-> in_sets, out |-> out_sets] # InOutPass(InOutInit, 1)
  /\ \E b \in DOMAIN blocks \ {1} :
       /\ predecessors[b] # <<>>
       /\ in_sets[b] \cap kill[b] # {}
       /\ in_sets[b] \ kill[b] # {}

--------------------------------------------------------------------------
(* Error handling *)

\* Some jump or conditional branch has a target <= 0 or > N
InvalidJumpTarget ==
  \E k \in 1..N :
    HasGOTO(input_tac[k]) /\
      (GotoTarget(input_tac[k]) <= 0 \/ GotoTarget(input_tac[k]) > N)

\* C15: for a program with a jump or branch target <= 0 or > N the run
\* fails before it produces anything: no leaders, no blocks, no later
\* result, and the run never completes.
C15_InvalidTargetRejected ==
  InvalidJumpTarget =>
    /\ leaders = <<>>
    /\ blocks = <<>>
    /\ successors = <<>>
    /\ pc # "done"

\* C16: the run does not return a result in which the UD-chain of some
\* recorded use (statement, variable) is empty: such a use is reported as
\* an error, so no completed run keeps one.
C16_EmptyChainReported ==
  pc = "done" => \A u \in RecordedUses : ud_chains[u[1]][u[2]] # {}

--------------------------------------------------------------------------
(* Code motion safety *)

\* Statements m and n are different assignments to one variable, both in
\* loop blocks
TwoLoopDefs(m, n) ==
  /\ m # n
  /\ HasAssign(input_tac[m]) /\ HasAssign(input_tac[n])
  /\ input_tac[m].lhs = input_tac[n].lhs
  /\ stmt_to_block[m] \in loop_blocks
  /\ stmt_to_block[n] \in loop_blocks

\* C17: if two different statements in loop blocks assign the same
\* variable, neither of them is in the movable set.
C17_TwoLoopDefsNotMovable ==
  Ran("identify_movable_invariants") =>
    \A m, n \in 1..N :
      TwoLoopDefs(m, n) =>
        m \notin Range(movable_instructions) /\ n \notin Range(movable_instructions)

\* C17 witness: two assignments to one variable in loop blocks are both
\* loop-invariant and every in-loop use of the variable, at least one, is
\* reached by the first alone; only the other definition bars the motion.
C17_Witness ==
  /\ Ran("identify_movable_invariants")
  /\ \E m, n \in 1..N :
       /\ TwoLoopDefs(m, n)
       /\ m \in Range(loop_invariants) /\ n \in Range(loop_invariants)
       /\ AllUsesReachedByThisDef(m)
       /\ UsesInLoop(input_tac[m].lhs) # {}

--------------------------------------------------------------------------
(* Concrete scenarios *)

NoGoto == \A k \in 1..N : ~HasGOTO(input_tac[k])

\* C19: for a program without any GOTO the run completes with leaders
\* <<1>>, one block, no back edge, no loop, and empty loop-invariant and
\* movable lists.
C19_ScenarioB ==
  NoGoto =>
    /\ pc # "error"
    /\ Ran("identify_movable_invariants") =>
         /\ leaders = <<1>>
         /\ Len(blocks) = 1
         /\ back_edges = <<>>
         /\ DOMAIN loops = {}
         /\ loop_blocks = {}
         /\ loop_invariants = <<>>
         /\ movable_instructions = <<>>

\* C19 witness: a completed run on a program without GOTO that has a
\* return before its last statement and an assignment with an operand.
C19_Witness ==
  /\ NoGoto
  /\ pc = "done"
  /\ \E k \in 1..(N - 1) : input_tac[k].kind = "return"
  /\ \E k \in 1..N : ExtractOperands(input_tac, k) # {}

--------------------------------------------------------------------------
(* Repeated runs *)

\* C20: a call of run_full_analysis on an analyser that has run before
\* ends as the previous call did, with the same value for every output
\* structure; nothing the previous call left changes it.
C20_SecondRunSameResult ==
  (pc \in {"done", "error"} /\ previous # <<>>) => Outcome = previous[1]

\* C20 witness: a second call has completed on a program with a back
\* edge, a loop-invariant statement and a UD-chain.
C20_Witness ==
  /\ pc = "done"
  /\ previous # <<>>
  /\ back_edges # <<>>
  /\ loop_invariants # <<>>
  /\ \E u \in RecordedUses : ud_chains[u[1]][u[2]] # {}

--------------------------------------------------------------------------
(* Loop-invariant detection *)

\* Statement n is an assignment in a loop block
LoopAssignment(n) ==
  HasAssign(input_tac[n]) /\ stmt_to_block[n] \in loop_blocks

\* The list after the first pass of the while loop of identify_loop_invariants
FirstPassInvariants == InvPass(<<>>, LoopStatements, 1)

\* C21: every assignment in a loop block whose right-hand side has no
\* identifier operand is in the loop-invariant list after the first pass of
\* the fixed-point loop, and in the final list, whatever the UD-chains hold.
C21_LiteralInvariantFirstPass ==
  Ran("identify_loop_invariants") =>
    \A n \in 1..N :
      (LoopAssignment(n) /\ ExtractOperands(input_tac, n) = {}) =>
        /\ n \in Range(FirstPassInvariants)
        /\ n \in Range(loop_invariants)

\* C21 witness: a literal assignment in a loop block, in a run whose
\* fixed-point loop added another statement after the first pass.
C21_Witness ==
  /\ Ran("identify_loop_invariants")
  /\ \E n \in 1..N : LoopAssignment(n) /\ ExtractOperands(input_tac, n) = {}
  /\ loop_invariants # FirstPassInvariants

\* The definitions of the UD-chain of operand op at statement n that lie
\* in loop blocks
InLoopDefs(n, op) == {d \in ud_chains[n][op] : stmt_to_block[d] \in loop_blocks}

\* C22: a statement is marked loop-invariant only if every operand has all
\* its reaching definitions outside the loop, or exactly one reaching
\* definition, which is in the loop and loop-invariant itself; never with
\* two in-loop definitions or an outside and an in-loop one.
C22_InvariantOnlyIfSingleLoopDef ==
  Ran("identify_loop_invariants") =>
    \A n \in Range(loop_invariants) :
      \A op \in ExtractOperands(input_tac, n) :
        \/ InLoopDefs(n, op) = {}
        \/ /\ Cardinality(ud_chains[n][op]) = 1
           /\ InLoopDefs(n, op) = ud_chains[n][op]
           /\ InLoopDefs(n, op) \subseteq Range(loop_invariants)

--------------------------------------------------------------------------
(* UD-chains within a block, GEN and KILL *)

\* Statement n assigns variable v
Assigns(n, v) == HasAssign(input_tac[n]) /\ input_tac[n].lhs = v

\* The statements before s in its block that assign v
EarlierDefs(s, v) ==
  {d \in Range(blocks[stmt_to_block[s]]) : d < s /\ Assigns(d, v)}

\* C23: for every recorded use of v at s in block B, the UD-chain is the
\* single latest statement before s in B that assigns v if there is one,
\* and otherwise the statements of IN[B] that assign v.
C23_LocalDefShadowsInherited ==
  Ran("compute_ud_chains") =>
    \A u \in RecordedUses :
      LET s == u[1]
          v == u[2]
      IN IF EarlierDefs(s, v) # {}
         THEN ud_chains[s][v] =
                {d \in EarlierDefs(s, v) : \A e \in EarlierDefs(s, v) : e <= d}
         ELSE ud_chains[s][v] =
                {d \in in_sets[stmt_to_block[s]] : d \in 1..N /\ Assigns(d, v)}

\* C23 witness: UD-chains are computed for a use with an earlier definition
\* in its block while IN of the block holds another definition of the
\* variable, and for a use without one whose statement assigns the variable
\* and is in IN of its block.
C23_Witness ==
  /\ Ran("compute_ud_chains")
  /\ \E u \in RecordedUses :
       /\ EarlierDefs(u[1], u[2]) # {}
       /\ \E d \in in_sets[stmt_to_block[u[1]]] :
            Assigns(d, u[2]) /\ d \notin EarlierDefs(u[1], u[2])
  /\ \E u \in RecordedUses :
       /\ EarlierDefs(u[1], u[2]) = {}
       /\ Assigns(u[1], u[2])
       /\ u[1] \in ud_chains[u[1]][u[2]]

\* C24: after compute_gen_kill GEN[B] is the set of assignments in B and
\* KILL[B] is the set of assignments d anywhere in the program for which
\* another assignment in B assigns the same variable; so GEN[B] and
\* KILL[B] overlap exactly when B assigns one variable more than once.
C24_GenKillSets ==
  Ran("compute_gen_kill") =>
    \A b \in DOMAIN blocks :
      /\ gen[b] = {n \in Range(blocks[b]) : HasAssign(input_tac[n])}
      /\ kill[b] =
           {d \in 1..N :
              /\ HasAssign(input_tac[d])
              /\ \E s \in Range(blocks[b]) : s # d /\ Assigns(s, input_tac[d].lhs)}
      /\ (gen[b] \cap kill[b] # {}) <=>
           \E m, n \in Range(blocks[b]) :
             m # n /\ HasAssign(input_tac[m]) /\ Assigns(n, input_tac[m].lhs)

\* C24 witness: GEN and KILL are computed for a program of several blocks
\* in which one block assigns a variable twice, so that its GEN and KILL
\* overlap, while another variable is assigned elsewhere or not at all.
C24_Witness ==
  /\ Ran("compute_gen_kill")
  /\ Len(blocks) >= 2
  /\ \E b \in DOMAIN blocks : gen[b] \cap kill[b] # {}

--------------------------------------------------------------------------
(* Robustness of the run, shape of the loops *)

\* C29: for a non-empty program whose targets all lie in 1..N the run
\* raises no index error, and no leader or block statement exceeds N, also
\* when the last statement is a conditional branch.
C29_ValidProgramCompletes ==
  /\ pc # "error"
  /\ \A i \in DOMAIN leaders : leaders[i] <= N
  /\ \A b \in DOMAIN blocks : \A i \in DOMAIN blocks[b] : blocks[b][i] <= N

\* Blocks of S reached from the blocks F along successor edges inside S
RECURSIVE ReachIn(_, _)
ReachIn(S, F) ==
  LET n == F \cup {t \in UNION {Range(successors[b]) : b \in F} : t \in S}
  IN IF n = F THEN F ELSE ReachIn(S, n)

\* C30: in every recorded loop each member block is reachable from the
\* header and reaches the header along CFG edges inside the loop's block
\* set.
C30_LoopStronglyConnected ==
  Ran("identify_loops") =>
    \A k \in DOMAIN loops :
      \A m \in Range(loops[k]) :
        /\ m \in ReachIn(Range(loops[k]), {k[1]})
        /\ k[1] \in ReachIn(Range(loops[k]), {m})

--------------------------------------------------------------------------
(* Progress of the fixed-point loops *)

\* C25: every update in compute_dominators replaces a block's set by a
\* subset of its previous value, and the repeat-until-unchanged loop
\* terminates: a run that enters compute_dominators leaves it.
C25_DominatorsShrinkAndTerminate ==
  /\ [][pc = "dominators_loop" =>
          \A b \in DOMAIN dominators : dominators'[b] \subseteq dominators[b]]_vars
  /\ (pc = "compute_dominators") ~> (pc = "identify_back_edges")

\* C25 witness: the loop has terminated and the set of a block with
\* predecessors has shrunk below the full block set it started from.
C25_Witness ==
  /\ pc = "identify_back_edges"
  /\ \E b \in DOMAIN blocks \ {1} :
       /\ predecessors[b] # <<>>
       /\ dominators[b] # DOMAIN blocks
       /\ dominators[b] # {b}

\* C26: from all-empty IN and OUT sets no update of compute_in_out removes
\* an element from an IN or OUT set, and the repeat-until-unchanged loop
\* terminates: a run that enters compute_in_out leaves it.
C26_InOutGrowAndTerminate ==
  /\ [][pc = "in_out_loop" =>
          \A b \in DOMAIN in_sets :
            in_sets[b] \subseteq in_sets'[b] /\ out_sets[b] \subseteq out_sets'[b]]_vars
  /\ (pc = "compute_in_out") ~> (pc = "compute_ud_chains")

\* C26 witness: the loop has terminated after more than one changing pass
\* with a non-empty IN set.
C26_Witness ==
  /\ pc = "compute_ud_chains"
  /\ \E b \in DOMAIN in_sets : in_sets[b] # {}
  /\ [in |-> in_sets, out |-> out_sets] # InOutPass(InOutInit, 1)

--------------------------------------------------------------------------
(* The step-through controller *)

\* C27: whatever presses of Auto Play, timer firings and navigation came
\* before, when next_step or previous_step returns, auto_playing is false
\* and no _auto_advance timer is left pending.
C27_ManualStepCancelsAutoPlay ==
  [][(next_step \/ previous_step) =>
       (~auto_playing' /\ pending' = {})]_vars

\* C28: an _auto_advance timer is pending only while auto_playing is true.
C28_TimerOnlyWhileAutoPlaying == pending # {} => auto_playing

====
